---- MODULE Spec2Model ----
(***************************************************************************)
(* A model of gevent-websocket: the Hybi (RFC 6455) connection object of   *)
(* geventwebsocket/hybi.py and the request handler of                      *)
(* geventwebsocket/handler.py.  Bytes are integers 0..255, byte strings    *)
(* are sequences of bytes.  Tasks are greenlets: a task runs from one      *)
(* suspension point (a socket read, a socket write, a wait for the write   *)
(* lock) to the next in one step.                                          *)
(***************************************************************************)
EXTENDS Integers, Sequences, FiniteSets, TLC

\* ------------------------------------------------------------------ bounds
\* Frames the peer puts on the stream.
MaxFrames == 3
\* API calls (receive, send, close) one task makes.
MaxCalls == 2

\* --------------------------------------------------------------- constants
OPCODE_TEXT == 1
OPCODE_BINARY == 2
OPCODE_CLOSE == 8
OPCODE_PING == 9
OPCODE_PONG == 10
\* 0x40 | 0x20 | 0x10
HEADER_RSV_MASK == 112
\* Python's None where an integer is expected (close_code, a close code argument,
\* the message opcode not yet known).
None == -1
\* Python's None where a byte string is expected (close_message).
NoneBytes == <<-1>>
\* closedWith while the connection has not been closed.
StillOpen == -2

\* ------------------------------------------------------------ byte helpers
RECURSIVE BitAnd(_, _)
BitAnd(a, b) ==
    IF a = 0 \/ b = 0 THEN 0
    ELSE ((a % 2) * (b % 2)) + (2 * BitAnd(a \div 2, b \div 2))

RECURSIVE BitXor(_, _)
BitXor(a, b) ==
    IF a = 0 THEN b
    ELSE IF b = 0 THEN a
    ELSE ((a + b) % 2) + (2 * BitXor(a \div 2, b \div 2))

RECURSIVE Pow2(_)
Pow2(n) == IF n = 0 THEN 1 ELSE 2 * Pow2(n - 1)

Take(s, n) == SubSeq(s, 1, IF n < Len(s) THEN n ELSE Len(s))
Drop(s, n) == SubSeq(s, (IF n < Len(s) THEN n ELSE Len(s)) + 1, Len(s))

\* struct.pack('!H', n), struct.pack('!Q', n)
RECURSIVE PackBE(_, _)
PackBE(n, width) ==
    IF width = 0 THEN <<>>
    ELSE Append(PackBE(n \div 256, width - 1), n % 256)

\* struct.unpack('!H', data)[0], struct.unpack('!Q', data)[0]
RECURSIVE UnpackBE(_)
UnpackBE(data) ==
    IF data = <<>> THEN 0
    ELSE (256 * UnpackBE(SubSeq(data, 1, Len(data) - 1))) + data[Len(data)]

\* A variant of Unmask that starts at the second byte of the masking key.
UnmaskShifted(payload, mask) ==
    [i \in 1..Len(payload) |-> BitXor(payload[i], mask[(i % 4) + 1])]

\* payload[i] = payload[i] ^ mask[i % 4]  (hybi.py, 0-based i)
Unmask(payload, mask) ==
    [i \in 1..Len(payload) |-> BitXor(payload[i], mask[((i - 1) % 4) + 1])]

\* ---------------------------------------------------------------- UTF-8
IsCont(b) == b >= 128 /\ b <= 191

\* The number of bytes of the UTF-8 sequence that starts s, 0 when s does not
\* start with a well-formed sequence (bytearray.decode('utf-8')).
Utf8Len(s) ==
    LET b == s[1] IN
    IF b < 128 THEN 1
    ELSE IF b >= 194 /\ b <= 223
        THEN IF Len(s) >= 2 /\ IsCont(s[2]) THEN 2 ELSE 0
    ELSE IF b >= 224 /\ b <= 239
        THEN IF Len(s) >= 3 /\ IsCont(s[2]) /\ IsCont(s[3])
                /\ (b = 224 => s[2] >= 160)
             THEN 3 ELSE 0
    ELSE IF b >= 240 /\ b <= 244
        THEN IF Len(s) >= 4 /\ IsCont(s[2]) /\ IsCont(s[3]) /\ IsCont(s[4])
                /\ (b = 240 => s[2] >= 144) /\ (b = 244 => s[2] <= 143)
             THEN 4 ELSE 0
    ELSE 0

Utf8Point(s, n) ==
    IF n = 1 THEN s[1]
    ELSE IF n = 2 THEN (s[1] - 192) * 64 + (s[2] - 128)
    ELSE IF n = 3 THEN (s[1] - 224) * 4096 + (s[2] - 128) * 64 + (s[3] - 128)
    ELSE (s[1] - 240) * 262144 + (s[2] - 128) * 4096 + (s[3] - 128) * 64 + (s[4] - 128)

\* message.decode('utf-8'): the code points, or <<-1>> for UnicodeDecodeError.
RECURSIVE Utf8Decode(_)
Utf8Decode(s) ==
    IF s = <<>> THEN <<>>
    ELSE LET n == Utf8Len(s) IN
         IF n = 0 THEN <<-1>>
         ELSE LET rest == Utf8Decode(Drop(s, n)) IN
              IF rest = <<-1>> THEN <<-1>>
              ELSE <<Utf8Point(s, n)>> \o rest

Utf8EncodePoint(c) ==
    IF c < 128 THEN <<c>>
    ELSE IF c < 2048 THEN <<192 + (c \div 64), 128 + (c % 64)>>
    ELSE IF c < 65536
        THEN <<224 + (c \div 4096), 128 + ((c \div 64) % 64), 128 + (c % 64)>>
    ELSE <<240 + (c \div 262144), 128 + ((c \div 4096) % 64),
           128 + ((c \div 64) % 64), 128 + (c % 64)>>

RECURSIVE Utf8Encode(_)
Utf8Encode(cps) ==
    IF cps = <<>> THEN <<>>
    ELSE Utf8EncodePoint(cps[1]) \o Utf8Encode(Drop(cps, 1))

\* A Python value that is a string: [t |-> "str" | "bytearray", v |-> bytes] or
\* [t |-> "unicode", v |-> code points]; [t |-> "None", v |-> <<>>] is None.
PyNone == [t |-> "None", v |-> <<>>]
PyStr(b) == [t |-> "str", v |-> b]

\* encode_bytes of geventwebsocket/websocket.py: text to its UTF-8 bytes, a byte
\* string unchanged.
encode_bytes(message) ==
    IF message.t = "unicode" THEN Utf8Encode(message.v) ELSE message.v

\* ------------------------------------------------------------ parse_header
HeaderOk(fin, opcode, has_mask, length) ==
    [err |-> "", fin |-> fin, opcode |-> opcode, has_mask |-> has_mask,
     length |-> length]
HeaderErr(e) ==
    [err |-> e, fin |-> FALSE, opcode |-> 0, has_mask |-> FALSE, length |-> 0]

parse_header(data) ==
    IF Len(data) # 2 THEN HeaderErr("ValueError")
    ELSE
    LET first_byte == data[1]
        second_byte == data[2]
        fin == BitAnd(first_byte, 128) = 128
        opcode == BitAnd(first_byte, 15)
        has_mask == BitAnd(second_byte, 128) = 128
        length == BitAnd(second_byte, 127)
    IN  IF BitAnd(first_byte, HEADER_RSV_MASK) # 0 THEN HeaderErr("WebSocketError")
        ELSE IF opcode > 7 /\ ~fin THEN HeaderErr("WebSocketError")
        ELSE IF opcode > 7 /\ length > 125 THEN HeaderErr("FrameTooLargeException")
        ELSE HeaderOk(fin, opcode, has_mask, length)

\* ----------------------------------------------------------- encode_header
\* msg_length < (1 << 63), computed within 32-bit integers.
Below2To63(n) == ((n \div Pow2(30)) \div Pow2(30)) < Pow2(3)

\* A variant of encode_header_len that writes 126 as a literal length.
encode_header_literal_126(msg_length, opcode) ==
    LET header == <<128 + opcode>> IN
    IF msg_length <= 126 THEN header \o <<msg_length>>
    ELSE IF msg_length < Pow2(16) THEN header \o <<126>> \o PackBE(msg_length, 2)
    ELSE IF Below2To63(msg_length) THEN header \o <<127>> \o PackBE(msg_length, 8)
    ELSE <<-1>>

\* encode_header for a message of msg_length bytes: <<-1>> stands for
\* FrameTooLargeException.
encode_header_len(msg_length, opcode) ==
    LET header == <<128 + opcode>> IN
    IF msg_length < 126 THEN header \o <<msg_length>>
    ELSE IF msg_length < Pow2(16) THEN header \o <<126>> \o PackBE(msg_length, 2)
    ELSE IF Below2To63(msg_length) THEN header \o <<127>> \o PackBE(msg_length, 8)
    ELSE <<-1>>

encode_header(message, opcode) ==
    encode_header_len(Len(encode_bytes(message)), opcode)

\* ------------------------------------------------------------------ state
Tasks == {"t1", "t2"}
Free == "free"

VARIABLES
    \* the connection object (WebSocketHybi and its base WebSocket)
    socket,         \* self.socket is not None
    readfn,         \* self._read is not None
    reading,        \* self._reading
    close_code,     \* self.close_code, None or 0..65535
    close_message,  \* self.close_message, NoneBytes or bytes
    writelock,      \* self._writelock: Free or the task that holds it
    \* the operating system's side of the connection
    fd,             \* the underlying socket has not been shut down
    wire,           \* what the server put on the wire, oldest first: chunks of
                    \* bytes [k |-> "bytes"] and shutdowns [k |-> "shutdown"]
    stream,         \* bytes the peer sent that no read has consumed
    peerClosed,     \* the peer has ended the stream
    \* the greenlets using the connection
    task,           \* per task: where it is suspended, and its locals
    ret,            \* per task: how its last API call ended
    calls,          \* per task: API calls made
    \* history
    sent,           \* frames the peer sent, oldest first
    nread,          \* frames _read_frame has returned
    closedWith,     \* the code argument of the close() that closed the connection
    closedBy,       \* the task that made that close() call
    \* the request handler (WebSocketHandler)
    codec,          \* a header encoded and parsed again
    handler         \* the request, the handler's fields, and what it has called

connVars == <<socket, readfn, reading, close_code, close_message, writelock,
              fd, wire, nread, closedWith, closedBy>>
vars == <<socket, readfn, reading, close_code, close_message, writelock,
          fd, wire, stream, peerClosed, task, ret, calls, sent, nread,
          closedWith, closedBy, handler, codec>>

\* The connection as one value, so that the methods compose.
Conn ==
    [socket |-> socket, readfn |-> readfn, reading |-> reading,
     close_code |-> close_code, close_message |-> close_message,
     writelock |-> writelock, fd |-> fd, wire |-> wire, nread |-> nread,
     closedWith |-> closedWith, closedBy |-> closedBy]

SetConn(w) ==
    /\ socket' = w.socket
    /\ readfn' = w.readfn
    /\ reading' = w.reading
    /\ close_code' = w.close_code
    /\ close_message' = w.close_message
    /\ writelock' = w.writelock
    /\ fd' = w.fd
    /\ wire' = w.wire
    /\ nread' = w.nread
    /\ closedWith' = w.closedWith
    /\ closedBy' = w.closedBy

Chunk(b) == [k |-> "bytes", b |-> b]
Shutdown == [k |-> "shutdown", b |-> <<>>]

\* A task's locals: pc is where it is suspended; fin, opcode, length and mask are
\* those of _read_frame; m_opcode and result are opcode and result of
\* _read_message; sf_msg and sf_opcode are the arguments of send_frame (of close,
\* in a close call) and sf_data the bytes still to write.  History of the call:
\* hdr, the last two header bytes read; frames, the frames _read_frame returned;
\* first, nread when the call began; wire0, the length of wire then; openAtCall,
\* whether the socket was open then; eof, whether the last read of a frame
\* header returned no bytes.
IdleTask ==
    [pc |-> "idle", call |-> "none", fin |-> FALSE, opcode |-> 0, length |-> 0,
     mask |-> <<>>, m_opcode |-> None, result |-> <<>>, sf_msg |-> PyNone,
     sf_opcode |-> 0, sf_data |-> <<>>, hdr |-> <<>>, frames |-> <<>>,
     first |-> 0, wire0 |-> 0, openAtCall |-> FALSE, eof |-> FALSE]

\* How an API call ended: kind is "return" or "raise", err the exception, val the
\* value returned; the rest is the call's arguments and history.
NoRet ==
    [op |-> "none", kind |-> "none", err |-> "", val |-> PyNone,
     msg |-> PyNone, opcode |-> 0, hdr |-> <<>>, frames |-> <<>>,
     first |-> 0, wire0 |-> 0, openAtCall |-> FALSE, eof |-> FALSE]

\* What a step of a task leaves: the connection, the task's locals and, when the
\* API call ended in this step, how (r.kind is "return" or "raise").
Out(w, tk, r) == [w |-> w, tk |-> tk, r |-> r]
Going(w, tk) == Out(w, tk, NoRet)
Ended(w, tk, kind, err, val) ==
    Out(w, IdleTask,
        [op |-> tk.call, kind |-> kind, err |-> err, val |-> val,
         msg |-> tk.sf_msg, opcode |-> tk.sf_opcode, hdr |-> tk.hdr,
         frames |-> tk.frames, first |-> tk.first, wire0 |-> tk.wire0,
         openAtCall |-> tk.openAtCall, eof |-> tk.eof])

\* ------------------------------------------------------------------ close
\* WebSocket.close of geventwebsocket/websocket.py: severs the socket.
base_close(w) ==
    [w EXCEPT !.fd = FALSE, !.wire = Append(w.wire, Shutdown)]

\* The guard of send_frame: "if not self.socket: raise WebSocketError".
send_frame_refused(w) == ~w.socket

\* The bytes send_frame writes for a byte-string message.
frame_bytes(message, opcode) ==
    encode_header(message, opcode) \o encode_bytes(message)

\* A variant of close without the check that the connection is already closed.
close_again(w, t, code, message) ==
    LET w1 == [w EXCEPT !.socket = FALSE, !.readfn = FALSE,
                        !.closedWith = code, !.closedBy = t]
    IN  base_close(w1)

\* WebSocketHybi.close(code, message) called by task t.  The close frame is sent
\* with send_frame after self.socket has been set to None.
close(w, t, code, message) ==
    IF ~w.socket THEN w
    ELSE
    LET w1 == [w EXCEPT !.socket = FALSE, !.readfn = FALSE,
                        !.closedWith = code, !.closedBy = t]
    IN  IF code = None \/ code = 0 THEN base_close(w1)
        ELSE
        LET body == PyStr(PackBE(code, 2) \o encode_bytes(message)) IN
        IF send_frame_refused(w1)
        THEN base_close(w1)     \* WebSocketError, swallowed
        ELSE base_close([w1 EXCEPT
                 !.wire = Append(w1.wire, Chunk(frame_bytes(body, OPCODE_CLOSE)))])

\* ---------------------------------------------------------------- receive
\* An exception e leaves _read_message: receive() closes the connection (with
\* 1002 for a ProtocolError, abruptly for anything else) and raises e again.
receive_raise(w, t, tk, e) ==
    Ended(close(w, t, IF e = "ProtocolError" THEN 1002 ELSE None, PyStr(<<>>)),
          tk, "raise", e, PyNone)

\* An exception e reaches the caller of the API call the task is in.
raise_out(w, t, tk, e) ==
    IF tk.call = "receive" THEN receive_raise(w, t, tk, e)
    ELSE Ended(w, tk, "raise", e, PyNone)

\* An exception e inside the try of _read_frame: finally clears the guard.
frame_raise(w, t, tk, e) ==
    receive_raise([w EXCEPT !.reading = FALSE], t, tk, e)

\* _read_frame calls self._read(n) and is suspended in it at pc.
next_read(w, t, tk, pc) ==
    IF ~w.readfn THEN frame_raise(w, t, tk, "TypeError")
    ELSE Going(w, [tk EXCEPT !.pc = pc])

\* A variant of read_frame_enter without the check of the reading guard.
read_frame_unguarded(w, t, tk) ==
    next_read([w EXCEPT !.reading = TRUE], t, tk, "rd_header")

\* _read_message calls _read_frame, which checks and sets the guard and starts
\* to read the header.
read_frame_enter(w, t, tk) ==
    IF w.reading THEN receive_raise(w, t, tk, "RuntimeError")
    ELSE next_read([w EXCEPT !.reading = TRUE], t, tk, "rd_header")

\* ------------------------------------------------------------- send_frame
\* encode_header(message, opcode) + message: the bytes, or the exception.
\* A str header with a byte over 127 does not concatenate with unicode.
frame_data(message, opcode) ==
    IF message.t = "unicode" THEN [err |-> "UnicodeDecodeError", b |-> <<>>]
    ELSE IF encode_header(message, opcode) = <<-1>>
        THEN [err |-> "FrameTooLargeException", b |-> <<>>]
    ELSE [err |-> "", b |-> frame_bytes(message, opcode)]

\* A variant of write_failed that leaves the write lock held.
write_failed_keeps_lock(w, t, tk, e) ==
    raise_out(close(w, t, None, PyStr(<<>>)), t, tk, e)

\* "except Exception: self.close(None); raise" inside the lock, then the lock
\* is released.
write_failed(w, t, tk, e) ==
    raise_out([close(w, t, None, PyStr(<<>>)) EXCEPT !.writelock = Free], t, tk, e)

\* The task holds the write lock: it builds the frame and starts to write it.
write_begin(w, t, tk) ==
    LET d == frame_data(tk.sf_msg, tk.sf_opcode) IN
    IF d.err # "" THEN write_failed(w, t, tk, d.err)
    ELSE Going(w, [tk EXCEPT !.pc = "sf_write", !.sf_data = d.b])

\* A variant of send_frame without the check that the socket is still there.
send_frame_unchecked(w, t, tk0, message, opcode) ==
    LET tk == [tk0 EXCEPT !.sf_msg = message, !.sf_opcode = opcode] IN
    IF w.writelock = Free THEN write_begin([w EXCEPT !.writelock = t], t, tk)
    ELSE Going(w, [tk EXCEPT !.pc = "sf_lock"])

\* send_frame(message, opcode).
send_frame(w, t, tk0, message, opcode) ==
    LET tk == [tk0 EXCEPT !.sf_msg = message, !.sf_opcode = opcode] IN
    IF send_frame_refused(w) THEN raise_out(w, t, tk, "WebSocketError")
    ELSE IF w.writelock = Free THEN write_begin([w EXCEPT !.writelock = t], t, tk)
    ELSE Going(w, [tk EXCEPT !.pc = "sf_lock"])

\* The frame is written and the lock released: send() returns, and the read of
\* a message that answered a ping goes on with the next frame.
write_done(w, t, tk) ==
    LET w1 == [w EXCEPT !.writelock = Free] IN
    IF tk.call = "receive" THEN read_frame_enter(w1, t, tk)
    ELSE Ended(w1, tk, "return", "", PyNone)

\* ---------------------------------------------------------- _read_message
\* The message is complete: receive() returns it, text decoded.
message_done(w, t, tk) ==
    IF tk.m_opcode = OPCODE_TEXT
    THEN LET u == Utf8Decode(tk.result) IN
         IF u = <<-1>>
         THEN Ended(close(w, t, 1007, PyStr(<<>>)), tk, "raise",
                    "UnicodeDecodeError", PyNone)
         ELSE Ended(w, tk, "return", "", [t |-> "unicode", v |-> u])
    ELSE IF tk.m_opcode = OPCODE_BINARY
    THEN Ended(w, tk, "return", "", [t |-> "bytearray", v |-> tk.result])
    ELSE receive_raise(w, t, tk, "AssertionError")

\* result.extend(f_payload); if f_fin: break
extend_result(w, t, tk0, f_fin, f_payload) ==
    LET tk == [tk0 EXCEPT !.result = @ \o f_payload] IN
    IF f_fin THEN message_done(w, t, tk) ELSE read_frame_enter(w, t, tk)

\* A variant of close_frame that takes the close code 1000 for a bad one.
close_frame_above_1000(w0, t, tk, f_payload) ==
    IF Len(f_payload) = 1
    THEN receive_raise(close(w0, t, None, PyStr(<<>>)), t, tk, "WebSocketError")
    ELSE
    LET w == IF Len(f_payload) >= 2
             THEN [w0 EXCEPT !.close_code = UnpackBE(Take(f_payload, 2)),
                             !.close_message = Drop(f_payload, 2)]
             ELSE w0
        code == w.close_code
    IN  IF code = None \/ (code > 1000 /\ code < 5000)
        THEN Ended(close(w, t, 1000, PyStr(<<>>)), tk, "return", "", PyNone)
        ELSE receive_raise(close(w, t, 1002, PyStr(<<>>)), t, tk, "WebSocketError")

\* The close frame branch of _read_message.
close_frame(w0, t, tk, f_payload) ==
    IF Len(f_payload) = 1
    THEN receive_raise(close(w0, t, None, PyStr(<<>>)), t, tk, "WebSocketError")
    ELSE
    LET w == IF Len(f_payload) >= 2
             THEN [w0 EXCEPT !.close_code = UnpackBE(Take(f_payload, 2)),
                             !.close_message = Drop(f_payload, 2)]
             ELSE w0
        code == w.close_code
    IN  IF code = None \/ (code >= 1000 /\ code < 5000)
        THEN Ended(close(w, t, 1000, PyStr(<<>>)), tk, "return", "", PyNone)
        ELSE receive_raise(close(w, t, 1002, PyStr(<<>>)), t, tk, "WebSocketError")

\* A variant of got_frame that answers a ping with an empty pong.
got_frame_empty_pong(w0, t, tk0, f_fin, f_opcode, f_payload) ==
    LET tk == [tk0 EXCEPT !.frames = Append(@,
                   [fin |-> f_fin, opcode |-> f_opcode, payload |-> f_payload])]
        w == [w0 EXCEPT !.nread = @ + 1]
    IN
    IF f_opcode \in {OPCODE_TEXT, OPCODE_BINARY}
    THEN IF tk.m_opcode = None
         THEN extend_result(w, t, [tk EXCEPT !.m_opcode = f_opcode], f_fin, f_payload)
         ELSE receive_raise(w, t, tk, "WebSocketError")
    ELSE IF f_opcode = 0
    THEN IF tk.m_opcode = None
         THEN receive_raise(close(w, t, 1002, PyStr(<<>>)), t, tk, "WebSocketError")
         ELSE extend_result(w, t, tk, f_fin, f_payload)
    ELSE IF f_opcode = OPCODE_CLOSE THEN close_frame(w, t, tk, f_payload)
    ELSE IF f_opcode = OPCODE_PING
    THEN send_frame(w, t, tk, PyStr(<<>>), OPCODE_PONG)
    ELSE IF f_opcode = OPCODE_PONG THEN read_frame_enter(w, t, tk)
    ELSE receive_raise(close(w, t, None, PyStr(<<>>)), t, tk, "WebSocketError")

\* _read_frame has returned (f_fin, f_opcode, f_payload): the body of the loop
\* of _read_message.
got_frame(w0, t, tk0, f_fin, f_opcode, f_payload) ==
    LET tk == [tk0 EXCEPT !.frames = Append(@,
                   [fin |-> f_fin, opcode |-> f_opcode, payload |-> f_payload])]
        w == [w0 EXCEPT !.nread = @ + 1]
    IN
    IF f_opcode \in {OPCODE_TEXT, OPCODE_BINARY}
    THEN IF tk.m_opcode = None
         THEN extend_result(w, t, [tk EXCEPT !.m_opcode = f_opcode], f_fin, f_payload)
         ELSE receive_raise(w, t, tk, "WebSocketError")
    ELSE IF f_opcode = 0
    THEN IF tk.m_opcode = None
         THEN receive_raise(close(w, t, 1002, PyStr(<<>>)), t, tk, "WebSocketError")
         ELSE extend_result(w, t, tk, f_fin, f_payload)
    ELSE IF f_opcode = OPCODE_CLOSE THEN close_frame(w, t, tk, f_payload)
    ELSE IF f_opcode = OPCODE_PING
    THEN send_frame(w, t, tk, PyStr(f_payload), OPCODE_PONG)
    ELSE IF f_opcode = OPCODE_PONG THEN read_frame_enter(w, t, tk)
    ELSE receive_raise(close(w, t, None, PyStr(<<>>)), t, tk, "WebSocketError")

\* ------------------------------------------------------------ _read_frame
\* A read that failed (the socket was shut down under it) is <<-1>>.
ReadFailed == <<-1>>

\* A variant of after_header without the check of the mask flag.
after_header_any_mask(w, t, tk0, data0) ==
    IF data0 = ReadFailed THEN frame_raise(w, t, tk0, "socket.error")
    ELSE IF data0 = <<>>
        THEN frame_raise(w, t, [tk0 EXCEPT !.eof = TRUE], "WebSocketError")
    ELSE
    LET h == parse_header(data0)
        tk == [tk0 EXCEPT !.hdr = data0]
    IN
    IF h.err # "" THEN frame_raise(w, t, tk, h.err)
    ELSE
    LET tk1 == [tk EXCEPT !.fin = h.fin, !.opcode = h.opcode, !.length = h.length]
    IN  IF h.length < 126 THEN next_read(w, t, tk1, "rd_mask")
        ELSE IF h.length = 126 THEN next_read(w, t, tk1, "rd_len2")
        ELSE next_read(w, t, tk1, "rd_len8")

\* self._read(2) has returned data0: _read_header up to its next read.
after_header(w, t, tk0, data0) ==
    IF data0 = ReadFailed THEN frame_raise(w, t, tk0, "socket.error")
    ELSE IF data0 = <<>>
        THEN frame_raise(w, t, [tk0 EXCEPT !.eof = TRUE], "WebSocketError")
    ELSE
    LET h == parse_header(data0)
        tk == [tk0 EXCEPT !.hdr = data0]
    IN
    IF h.err # "" THEN frame_raise(w, t, tk, h.err)
    ELSE IF ~h.has_mask /\ h.length # 0 THEN frame_raise(w, t, tk, "WebSocketError")
    ELSE
    LET tk1 == [tk EXCEPT !.fin = h.fin, !.opcode = h.opcode, !.length = h.length]
    IN  IF h.length < 126 THEN next_read(w, t, tk1, "rd_mask")
        ELSE IF h.length = 126 THEN next_read(w, t, tk1, "rd_len2")
        ELSE next_read(w, t, tk1, "rd_len8")

\* self._read(n) of the extended length (n is 2 or 8) has returned data1.
after_length(w, t, tk, data1, n) ==
    IF data1 = ReadFailed THEN frame_raise(w, t, tk, "socket.error")
    ELSE IF Len(data1) # n THEN frame_raise(w, t, tk, "WebSocketError")
    ELSE next_read(w, t, [tk EXCEPT !.length = UnpackBE(data1)], "rd_mask")

\* self._read(4) has returned mask.
after_mask(w, t, tk, mask) ==
    IF mask = ReadFailed THEN frame_raise(w, t, tk, "socket.error")
    ELSE IF Len(mask) # 4 THEN frame_raise(w, t, tk, "WebSocketError")
    ELSE IF tk.length = 0
        THEN got_frame([w EXCEPT !.reading = FALSE], t, tk, tk.fin, tk.opcode, <<>>)
    ELSE next_read(w, t, [tk EXCEPT !.mask = mask], "rd_payload")

\* self._read(length) has returned payload.
after_payload(w, t, tk, payload) ==
    IF payload = ReadFailed THEN frame_raise(w, t, tk, "socket.error")
    ELSE IF Len(payload) # tk.length THEN frame_raise(w, t, tk, "WebSocketError")
    ELSE got_frame([w EXCEPT !.reading = FALSE], t, tk, tk.fin, tk.opcode,
                   Unmask(payload, tk.mask))

\* ------------------------------------------------------------------- peer
\* The masking key the peer uses (the example key of RFC 6455).
MaskKey == <<55, 250, 33, 61>>

\* A frame as the peer builds it: fin and rsv are the bits of the first byte
\* (rsv one of 0, 16, 32, 64), form is how the length is written.
PeerFrame(fin, rsv, opcode, masked, form, payload) ==
    [fin |-> fin, rsv |-> rsv, opcode |-> opcode, masked |-> masked,
     form |-> form, payload |-> payload]

\* The peer masks octet i of the payload with octet i mod 4 of the key (RFC 6455,
\* section 5.3).
PeerMask(payload, key) ==
    [i \in 1..Len(payload) |-> BitXor(payload[i], key[((i - 1) % 4) + 1])]

\* The bytes of a frame on the wire (RFC 6455, section 5.2).
EncodeFrame(f) ==
    LET n == Len(f.payload)
        b0 == (IF f.fin THEN 128 ELSE 0) + f.rsv + f.opcode
        m == IF f.masked THEN 128 ELSE 0
    IN  (IF f.form = "lit" THEN <<b0, m + n>>
         ELSE IF f.form = "b16" THEN <<b0, m + 126>> \o PackBE(n, 2)
         ELSE <<b0, m + 127>> \o PackBE(n, 8))
        \o (IF f.masked THEN MaskKey \o PeerMask(f.payload, MaskKey) ELSE f.payload)

\* ---------------------------------------------------------------- actions
Apply(t, o) ==
    /\ SetConn(o.w)
    /\ task' = [task EXCEPT ![t] = o.tk]
    /\ ret' = [ret EXCEPT ![t] = IF o.r.kind = "none" THEN @ ELSE o.r]

NewCall(t, op) ==
    [IdleTask EXCEPT !.call = op, !.openAtCall = socket, !.first = nread,
                     !.wire0 = Len(wire)]

\* A task is suspended in a read that the bytes on the stream do not satisfy.
ReaderWaits ==
    /\ stream = <<>>
    /\ \E t \in Tasks : task[t].pc \in {"rd_header", "rd_len2", "rd_len8", "rd_mask",
                                        "rd_payload"}

\* The peer sends frame f, when a reader waits for bytes.
PeerSend(f, maxFrames) ==
    /\ ~peerClosed /\ ReaderWaits /\ Len(sent) < maxFrames
    /\ stream' = EncodeFrame(f)
    /\ sent' = Append(sent, f)
    /\ UNCHANGED <<codec, handler, connVars, peerClosed, task, ret, calls>>

\* The peer sends the first k bytes of frame f and ends the stream.
PeerSendCut(f, k, maxFrames) ==
    /\ ~peerClosed /\ ReaderWaits /\ Len(sent) < maxFrames
    /\ stream' = Take(EncodeFrame(f), k)
    /\ peerClosed' = TRUE
    /\ UNCHANGED <<codec, handler, connVars, sent, task, ret, calls>>

\* ws.receive() is called by task t.
Receive(t) ==
    /\ task[t].pc = "idle" /\ calls[t] < MaxCalls
    /\ calls' = [calls EXCEPT ![t] = @ + 1]
    /\ Apply(t, read_frame_enter(Conn, t, NewCall(t, "receive")))
    /\ UNCHANGED <<codec, handler, stream, peerClosed, sent>>

\* ws.send(message, binary) is called by task t; binary None is given as "None".
Send(t, message, binary) ==
    /\ task[t].pc = "idle" /\ calls[t] < MaxCalls
    /\ calls' = [calls EXCEPT ![t] = @ + 1]
    /\ LET isbin == IF binary = "None" THEN message.t = "str" ELSE binary = "True"
           opcode == IF isbin THEN OPCODE_BINARY ELSE OPCODE_TEXT
       IN  Apply(t, send_frame(Conn, t, NewCall(t, "send"), message, opcode))
    /\ UNCHANGED <<codec, handler, stream, peerClosed, sent>>

\* ws.close(code, message) is called by task t.
Close(t, code, message) ==
    /\ task[t].pc = "idle" /\ calls[t] < MaxCalls
    /\ calls' = [calls EXCEPT ![t] = @ + 1]
    /\ LET tk == [NewCall(t, "close") EXCEPT !.sf_opcode = code, !.sf_msg = message]
       IN  Apply(t, Ended(close(Conn, t, code, message), tk, "return", "", PyNone))
    /\ UNCHANGED <<codec, handler, stream, peerClosed, sent>>

\* A read of n bytes can return: the bytes are there, the peer has ended the
\* stream, or the socket was shut down under the read.
ReadReady(n) == Len(stream) >= n \/ peerClosed \/ ~fd

\* What a read of n bytes returns.  On a socket another task has shut down in
\* the meantime the read raises, or returns what was buffered, or nothing.
ReadOutcomes(n) ==
    IF fd THEN {Take(stream, n)} ELSE {Take(stream, n), <<>>, ReadFailed}

Consume(data) ==
    stream' = IF data = ReadFailed THEN stream ELSE Drop(stream, Len(data))

\* Task t's self._read(2) in _read_header returns.
RdHeader(t) ==
    /\ task[t].pc = "rd_header" /\ ReadReady(2)
    /\ \E data \in ReadOutcomes(2) :
          /\ Consume(data)
          /\ Apply(t, after_header(Conn, t, task[t], data))
    /\ UNCHANGED <<codec, handler, peerClosed, sent, calls>>

\* Task t's read of the 2-byte or 8-byte extended length returns.
RdLength(t) ==
    /\ task[t].pc \in {"rd_len2", "rd_len8"}
    /\ LET n == IF task[t].pc = "rd_len2" THEN 2 ELSE 8 IN
       /\ ReadReady(n)
       /\ \E data \in ReadOutcomes(n) :
             /\ Consume(data)
             /\ Apply(t, after_length(Conn, t, task[t], data, n))
    /\ UNCHANGED <<codec, handler, peerClosed, sent, calls>>

\* Task t's self._read(4) of the mask returns.
RdMask(t) ==
    /\ task[t].pc = "rd_mask" /\ ReadReady(4)
    /\ \E data \in ReadOutcomes(4) :
          /\ Consume(data)
          /\ Apply(t, after_mask(Conn, t, task[t], data))
    /\ UNCHANGED <<codec, handler, peerClosed, sent, calls>>

\* Task t's self._read(length) of the payload returns.
RdPayload(t) ==
    /\ task[t].pc = "rd_payload" /\ ReadReady(task[t].length)
    /\ \E data \in ReadOutcomes(task[t].length) :
          /\ Consume(data)
          /\ Apply(t, after_payload(Conn, t, task[t], data))
    /\ UNCHANGED <<codec, handler, peerClosed, sent, calls>>

\* Task t, waiting in "with self._writelock", gets the lock.
SfLock(t) ==
    /\ task[t].pc = "sf_lock" /\ writelock = Free
    /\ Apply(t, write_begin([Conn EXCEPT !.writelock = t], t, task[t]))
    /\ UNCHANGED <<codec, handler, stream, peerClosed, sent, calls>>

\* self._write (socket.sendall) of task t puts the first bytes of the frame on
\* the wire, or fails: ok is whether the network takes the bytes.
SfWrite(t, ok) ==
    /\ task[t].pc = "sf_write"
    /\ LET tk == task[t] IN
       IF ~ok \/ ~fd THEN Apply(t, write_failed(Conn, t, tk, "socket.error"))
       ELSE Apply(t, Going([Conn EXCEPT !.wire = Append(@, Chunk(Take(tk.sf_data, 2)))],
                           [tk EXCEPT !.pc = "sf_write2", !.sf_data = Drop(@, 2)]))
    /\ UNCHANGED <<codec, handler, stream, peerClosed, sent, calls>>

\* self._write of task t puts the rest of the frame on the wire, or fails.
SfWrite2(t, ok) ==
    /\ task[t].pc = "sf_write2"
    /\ LET tk == task[t] IN
       IF ~ok \/ ~fd THEN Apply(t, write_failed(Conn, t, tk, "socket.error"))
       ELSE Apply(t, write_done([Conn EXCEPT !.wire = Append(@, Chunk(tk.sf_data))],
                                t, tk))
    /\ UNCHANGED <<codec, handler, stream, peerClosed, sent, calls>>

\* ---------------------------------------------------------------- handler
\* A request: method and version are those of the request line, upgrade and
\* connection the values of the Upgrade and Connection headers ("" when absent),
\* secver and origin whether Sec-WebSocket-Version and Origin are present,
\* prevent is the handler's prevent_wsgi_call, engine is whether the protocol
\* engine accepts the handshake.
Requests ==
    [method : {"GET", "POST"}, version : {"HTTP/1.1", "HTTP/1.0"},
     upgrade : {"websocket", "WebSocket", ""},
     connection : {"upgrade", "Upgrade", "keep-alive"},
     secver : BOOLEAN, origin : BOOLEAN, prevent : BOOLEAN,
     engine : {"ok", "fail"}]

\* str.lower() on the header values of Requests.
Lower(x) ==
    IF x = "WebSocket" THEN "websocket" ELSE IF x = "Upgrade" THEN "upgrade" ELSE x

\* The handler when run_application is called: status is self.status ("ABSENT"
\* when nothing has set the attribute, "None" when the host has set it to None
\* and no response is started), result is self.result,
\* websocket is self.websocket and envWs is environ['wsgi.websocket'] (the
\* protocol of the connection object, "None" when there is none), log is what
\* has been called, raised is whether run_application ended by an exception.
NewHandler(req, status) ==
    [pc |-> "start", req |-> req, status |-> status, headers_sent |-> FALSE,
     result |-> "None", websocket |-> "None", envWs |-> "None", log |-> <<>>,
     raised |-> FALSE]

Logged(hh, what) == [hh EXCEPT !.log = Append(@, what)]

\* WebSocketHandler.start_response: the host's start_response records the status.
start_response(hh, status) ==
    [Logged(hh, "start_response") EXCEPT !.status = status]

\* upgrade_connection of the engine ("hybi" or "hixie"): on success it answers
\* 101 and puts the connection object in environ; on failure it answers 400 and
\* returns the body of the error response.
upgrade_connection(hh, engine) ==
    IF hh.req.engine = "ok"
    THEN [h |-> [start_response(Logged(hh, engine), "101 Switching Protocols")
                    EXCEPT !.envWs = engine],
          result |-> "None"]
    ELSE [h |-> start_response(Logged(hh, engine), "400 Bad Request"),
          result |-> "body"]

\* A variant of upgrade_websocket without the check of the HTTP version.
upgrade_websocket_any_version(hh) ==
    IF hh.req.method # "GET"
    THEN [h |-> start_response(hh, "400 Bad Request"), ok |-> FALSE]
    ELSE IF ~hh.req.secver /\ ~hh.req.origin THEN [h |-> hh, ok |-> FALSE]
    ELSE
    LET u == upgrade_connection(hh, IF hh.req.secver THEN "hybi" ELSE "hixie") IN
    IF u.h.envWs = "None"
    THEN [h |-> [u.h EXCEPT !.result = IF u.result = "None" THEN "[]" ELSE u.result],
          ok |-> FALSE]
    ELSE [h |-> u.h, ok |-> TRUE]

\* WebSocketHandler.upgrade_websocket: the handler afterwards, and what it returns.
upgrade_websocket(hh) ==
    IF hh.req.method # "GET"
    THEN [h |-> start_response(hh, "400 Bad Request"), ok |-> FALSE]
    ELSE IF hh.req.version # "HTTP/1.1"
    THEN [h |-> start_response(hh, "400 Bad Request"), ok |-> FALSE]
    ELSE IF ~hh.req.secver /\ ~hh.req.origin THEN [h |-> hh, ok |-> FALSE]
    ELSE
    LET u == upgrade_connection(hh, IF hh.req.secver THEN "hybi" ELSE "hixie") IN
    IF u.h.envWs = "None"
    THEN [h |-> [u.h EXCEPT !.result = IF u.result = "None" THEN "[]" ELSE u.result],
          ok |-> FALSE]
    ELSE [h |-> u.h, ok |-> TRUE]

\* hasattr(self, 'status'): whether the attribute is there, whatever it holds.
has_status_attr(hh) == hh.status # "ABSENT"

\* WebSocketHandler.run_websocket up to the call of the application.
run_websocket(hh) ==
    IF hh.req.prevent THEN [hh EXCEPT !.pc = "done"]
    ELSE [Logged(hh, "application") EXCEPT !.pc = "app"]

\* WebSocketHandler.run_application from "self.websocket = ..." on.
run_upgraded(hh0) ==
    LET hh == [hh0 EXCEPT !.websocket = hh0.envWs] IN
    IF hh.websocket = "None"
    THEN [Logged(hh, "super.run_application") EXCEPT !.pc = "done"]
    ELSE IF hh.status = "ABSENT"      \* self.status raises AttributeError
    THEN [hh EXCEPT !.pc = "done", !.raised = TRUE]
    ELSE IF hh.status # "None" /\ ~hh.headers_sent
    THEN run_websocket([Logged(hh, "write") EXCEPT !.headers_sent = TRUE])
    ELSE run_websocket(hh)

\* WebSocketHandler.run_application.
run_application(hh) ==
    IF Lower(hh.req.upgrade) = "websocket" /\ Lower(hh.req.connection) = "upgrade"
    THEN LET u == upgrade_websocket(hh) IN
         IF ~u.ok /\ has_status_attr(u.h)
         THEN [Logged(u.h, "process_result") EXCEPT !.pc = "done"]
         ELSE run_upgraded(u.h)
    ELSE run_upgraded(hh)

\* self.websocket.close(): close() of WebSocketHybi, or of the Hixie connection,
\* which has the close of the base class.
websocket_close(w, kind) ==
    IF kind = "hybi" THEN close(w, "handler", 1000, PyStr(<<>>))
    ELSE IF ~w.socket THEN w
    ELSE base_close([w EXCEPT !.socket = FALSE, !.readfn = FALSE,
                              !.closedWith = None, !.closedBy = "handler"])

\* A variant of run_websocket_end that closes only when the application returned.
run_websocket_end_no_finally(hh, w, raised) ==
    IF raised THEN [h |-> [hh EXCEPT !.pc = "done", !.raised = raised], w |-> w]
    ELSE [h |-> [Logged(hh, "websocket.close") EXCEPT !.pc = "done", !.raised = raised],
          w |-> websocket_close(w, hh.websocket)]

\* The finally of run_websocket, when the application has returned or raised.
run_websocket_end(hh, w, raised) ==
    [h |-> [Logged(hh, "websocket.close") EXCEPT !.pc = "done", !.raised = raised],
     w |-> websocket_close(w, hh.websocket)]

\* handle_one_response calls run_application, which runs up to the call of the
\* application or to its end.
RunApplication ==
    /\ handler.pc = "start"
    /\ handler' = run_application(handler)
    /\ UNCHANGED <<codec, connVars, stream, peerClosed, task, ret, calls, sent>>

\* The application closes the connection itself, with a code or abruptly.
AppCloses(code) ==
    /\ handler.pc = "app" /\ socket
    /\ SetConn(IF handler.websocket = "hybi" THEN close(Conn, "app", code, PyStr(<<>>))
               ELSE websocket_close(Conn, handler.websocket))
    /\ UNCHANGED <<codec, handler, stream, peerClosed, task, ret, calls, sent>>

\* The application returns, or raises.
AppEnds(raised) ==
    /\ handler.pc = "app"
    /\ LET e == run_websocket_end(handler, Conn, raised) IN
       handler' = e.h /\ SetConn(e.w)
    /\ UNCHANGED <<codec, stream, peerClosed, task, ret, calls, sent>>

\* ------------------------------------------------------------ header codec
\* _read_header on the bytes data, all of them there to be read: the header
\* with the length resolved, or the exception.
read_header(data) ==
    LET data0 == Take(data, 2) IN
    IF data0 = <<>> THEN HeaderErr("WebSocketError")
    ELSE
    LET h == parse_header(data0) IN
    IF h.err # "" THEN h
    ELSE IF ~h.has_mask /\ h.length # 0 THEN HeaderErr("WebSocketError")
    ELSE IF h.length < 126 THEN h
    ELSE
    LET n == IF h.length = 126 THEN 2 ELSE 8
        data1 == Take(Drop(data, 2), n)
    IN  IF Len(data1) # n THEN HeaderErr("WebSocketError")
        ELSE [h EXCEPT !.length = UnpackBE(data1)]

\* No header in hand.
NoCodec ==
    [step |-> "none", opcode |-> 0, length |-> 0, header |-> <<>>,
     parsed |-> HeaderErr("none"), read |-> HeaderErr("none")]

\* encode_header is called for a message of codec.length bytes.
EncodeHeader ==
    /\ codec.step = "input"
    /\ codec' = [codec EXCEPT !.step = "encoded",
                              !.header = encode_header_len(codec.length, codec.opcode)]
    /\ UNCHANGED <<handler, connVars, stream, peerClosed, task, ret, calls, sent>>

\* The header is parsed: its first two bytes by parse_header, and the whole of
\* it by _read_header.
ParseHeader ==
    /\ codec.step = "encoded" /\ codec.header # <<-1>>
    /\ codec' = [codec EXCEPT !.step = "parsed",
                              !.parsed = parse_header(Take(codec.header, 2)),
                              !.read = read_header(codec.header)]
    /\ UNCHANGED <<handler, connVars, stream, peerClosed, task, ret, calls, sent>>

\* ---------------------------------------------------------- initial state
\* The connection when it has just been made, no request in hand.
InitConn ==
    /\ socket = TRUE /\ readfn = TRUE /\ reading = FALSE
    /\ close_code = None /\ close_message = NoneBytes
    /\ writelock = Free /\ fd = TRUE /\ wire = <<>>
    /\ stream = <<>> /\ peerClosed = FALSE /\ sent = <<>> /\ nread = 0
    /\ task = [t \in Tasks |-> IdleTask]
    /\ ret = [t \in Tasks |-> NoRet]
    /\ calls = [t \in Tasks |-> 0]
    /\ closedWith = StillOpen /\ closedBy = "nobody"

\* The handler while the application runs on an upgraded Hybi connection.
InApplication ==
    [run_application(NewHandler(
        [method |-> "GET", version |-> "HTTP/1.1", upgrade |-> "websocket",
         connection |-> "Upgrade", secver |-> TRUE, origin |-> FALSE,
         prevent |-> FALSE, engine |-> "ok"], "None")) EXCEPT !.log = <<>>]

Init == InitConn /\ handler = InApplication /\ codec = NoCodec

\* A request arrives, on a handler whose status nothing has set or whose status
\* the host has set to None.
InitHandler ==
    /\ InitConn /\ codec = NoCodec
    /\ \E req \in Requests : \E status \in {"ABSENT", "None"} :
          handler = NewHandler(req, status)

\* The lengths of the messages whose header is encoded: around the bounds of the
\* three length forms, up to the largest 32-bit integer.
HeaderLengths ==
    (0 .. 30) \cup (120 .. 130) \cup {255, 256, 257, 65535, 65536, 65537, 2147483647}

\* A text or binary message of one of these lengths is to be sent.
InitHeader ==
    /\ InitConn /\ handler = InApplication
    /\ \E opcode \in {OPCODE_TEXT, OPCODE_BINARY} : \E length \in HeaderLengths :
          codec = [NoCodec EXCEPT !.step = "input", !.opcode = opcode,
                                  !.length = length]

\* ------------------------------------------------------- what is explored
Masked(fin, opcode, payload) == PeerFrame(fin, 0, opcode, TRUE, "lit", payload)
Unmasked(fin, opcode, form, payload) == PeerFrame(fin, 0, opcode, FALSE, form, payload)
CloseBody(code, reason) == PackBE(code, 2) \o reason

\* What the peer sends.  195 169 is the UTF-8 of U+00E9; 195 alone is not UTF-8.
DataFrames ==
    {Masked(TRUE, OPCODE_TEXT, <<195, 169>>), Masked(TRUE, OPCODE_TEXT, <<195>>),
     Masked(TRUE, OPCODE_TEXT, <<>>), Masked(TRUE, OPCODE_BINARY, <<65, 66, 67, 68, 69>>),
     Masked(FALSE, OPCODE_TEXT, <<65>>), Masked(FALSE, OPCODE_BINARY, <<>>),
     Masked(FALSE, 0, <<66>>), Masked(TRUE, 0, <<169>>)}
ControlFrames ==
    {Masked(TRUE, OPCODE_PING, <<104, 105>>), Masked(TRUE, OPCODE_PONG, <<7>>)}
CloseFrames ==
    {Masked(TRUE, OPCODE_CLOSE, p) :
        p \in {<<>>, <<3>>, CloseBody(1000, <<>>), CloseBody(1000, <<98, 121>>),
               CloseBody(999, <<>>), CloseBody(4999, <<>>), CloseBody(5000, <<98>>),
               CloseBody(1, <<>>)}}
LongFormFrames ==
    {PeerFrame(TRUE, 0, OPCODE_TEXT, TRUE, "b16", <<65, 66>>),
     PeerFrame(TRUE, 0, OPCODE_BINARY, TRUE, "b64", <<65>>),
     PeerFrame(TRUE, 0, OPCODE_PING, TRUE, "b16", <<65>>)}
BadFrames ==
    {PeerFrame(TRUE, 16, OPCODE_TEXT, TRUE, "lit", <<65>>),
     PeerFrame(TRUE, 64, OPCODE_PING, TRUE, "lit", <<>>),
     Masked(FALSE, OPCODE_PING, <<65>>), Masked(FALSE, OPCODE_CLOSE, <<>>),
     Masked(TRUE, 3, <<65>>), Masked(TRUE, 11, <<>>)}
Opcodes ==
    {0, OPCODE_TEXT, OPCODE_BINARY, 3, OPCODE_CLOSE, OPCODE_PING, OPCODE_PONG}
UnmaskedFrames ==
    {Unmasked(TRUE, opcode, form, <<65>>) :
        opcode \in Opcodes, form \in {"lit", "b16", "b64"}}
    \cup {Unmasked(FALSE, opcode, "lit", <<65, 66>>) : opcode \in Opcodes}
    \cup {Unmasked(TRUE, OPCODE_PONG, "lit", <<>>),
          Unmasked(TRUE, OPCODE_TEXT, "lit", <<>>)}

ClientFrames ==
    DataFrames \cup ControlFrames \cup CloseFrames \cup LongFormFrames
        \cup BadFrames \cup UnmaskedFrames
CutFrames == {Masked(TRUE, OPCODE_TEXT, <<65, 66>>),
              PeerFrame(TRUE, 0, OPCODE_BINARY, TRUE, "b16", <<65>>)}

SendMessages == {PyStr(<<104, 105>>), [t |-> "unicode", v |-> <<233>>]}
CloseCodes == {None, 0, 1000, 1002}
CloseReasons == {PyStr(<<>>), [t |-> "unicode", v |-> <<233>>]}

\* One task uses the connection; the peer sends any frame.
Next ==
    \/ \E f \in ClientFrames : PeerSend(f, MaxFrames)
    \/ \E f \in CutFrames : \E k \in 0..(Len(EncodeFrame(f)) - 1) :
          PeerSendCut(f, k, MaxFrames)
    \/ Receive("t1")
    \/ \E m \in SendMessages : \E b \in {"None", "True", "False"} : Send("t1", m, b)
    \/ \E c \in CloseCodes : \E m \in CloseReasons : Close("t1", c, m)
    \/ RdHeader("t1")
    \/ RdLength("t1")
    \/ RdMask("t1")
    \/ RdPayload("t1")
    \/ \E ok \in BOOLEAN : SfWrite("t1", ok)
    \/ \E ok \in BOOLEAN : SfWrite2("t1", ok)

Spec == Init /\ [][Next]_vars

\* One task only receives; the peer sends fragments, pings and pongs.
MaxFragFrames == 4
FragFrames ==
    {Masked(fin, opcode, p) :
        fin \in BOOLEAN, opcode \in {0, OPCODE_TEXT, OPCODE_BINARY},
        p \in {<<195>>, <<169>>}}
    \cup {Masked(TRUE, 0, <<65, 66, 67, 68, 69>>), Masked(FALSE, 0, <<>>),
          PeerFrame(FALSE, 0, 0, TRUE, "b16", <<65>>),
          Masked(TRUE, OPCODE_PING, <<104, 105>>), Masked(TRUE, OPCODE_PONG, <<7>>),
          Unmasked(TRUE, OPCODE_PONG, "lit", <<>>)}

NextFrag ==
    \/ \E f \in FragFrames : PeerSend(f, MaxFragFrames)
    \/ Receive("t1")
    \/ RdHeader("t1")
    \/ RdLength("t1")
    \/ RdMask("t1")
    \/ RdPayload("t1")
    \/ \E ok \in BOOLEAN : SfWrite("t1", ok)
    \/ \E ok \in BOOLEAN : SfWrite2("t1", ok)

SpecFrag == Init /\ [][NextFrag]_vars

\* Two tasks use the connection: both receive, and t2 also sends and closes.
MaxConcFrames == 2
ConcFrames ==
    {PeerFrame(TRUE, 0, OPCODE_TEXT, TRUE, "b16", <<65>>),
     Masked(FALSE, OPCODE_TEXT, <<65>>), Masked(TRUE, 0, <<66>>),
     Masked(TRUE, OPCODE_PING, <<104, 105>>)}

NextConc ==
    \/ \E f \in ConcFrames : PeerSend(f, MaxConcFrames)
    \/ \E t \in Tasks : Receive(t)
    \/ Send("t2", PyStr(<<104, 105>>), "None")
    \/ Close("t2", 1000, PyStr(<<>>))
    \/ \E t \in Tasks : RdHeader(t)
    \/ \E t \in Tasks : RdLength(t)
    \/ \E t \in Tasks : RdMask(t)
    \/ \E t \in Tasks : RdPayload(t)
    \/ \E t \in Tasks : SfLock(t)
    \/ \E t \in Tasks : \E ok \in BOOLEAN : SfWrite(t, ok)
    \/ \E t \in Tasks : \E ok \in BOOLEAN : SfWrite2(t, ok)

SpecConc == Init /\ [][NextConc]_vars

\* Two tasks share the connection: each sends its own message and closes, and
\* t1 also receives; the peer sends pings, a text message and a close frame.
MaxSharedFrames == 2
SharedFrames ==
    {Masked(TRUE, OPCODE_PING, <<104, 105>>), Masked(TRUE, OPCODE_TEXT, <<65>>),
     Masked(TRUE, OPCODE_CLOSE, CloseBody(1001, <<98>>))}
MessageOf(t) == IF t = "t1" THEN PyStr(<<97, 97, 97>>) ELSE PyStr(<<98, 98, 98>>)

NextShared ==
    \/ \E f \in SharedFrames : PeerSend(f, MaxSharedFrames)
    \/ Receive("t1")
    \/ \E t \in Tasks : Send(t, MessageOf(t), "None")
    \/ \E t \in Tasks : \E c \in {None, 1000} : Close(t, c, PyStr(<<>>))
    \/ \E t \in Tasks : RdHeader(t)
    \/ \E t \in Tasks : RdMask(t)
    \/ \E t \in Tasks : RdPayload(t)
    \/ \E t \in Tasks : SfLock(t)
    \/ \E t \in Tasks : \E ok \in BOOLEAN : SfWrite(t, ok)
    \/ \E t \in Tasks : \E ok \in BOOLEAN : SfWrite2(t, ok)

SpecShared == Init /\ [][NextShared]_vars

\* Two tasks send while one of them also receives, and the peer sends pings;
\* a task that can run does run in the end.
MaxLockFrames == 2
NextLock ==
    \/ PeerSend(Masked(TRUE, OPCODE_PING, <<104, 105>>), MaxLockFrames)
    \/ Receive("t1")
    \/ \E t \in Tasks : Send(t, MessageOf(t), "None")
    \/ RdHeader("t1")
    \/ RdMask("t1")
    \/ RdPayload("t1")
    \/ \E t \in Tasks : SfLock(t)
    \/ \E t \in Tasks : \E ok \in BOOLEAN : SfWrite(t, ok)
    \/ \E t \in Tasks : \E ok \in BOOLEAN : SfWrite2(t, ok)

SpecLock ==
    /\ Init /\ [][NextLock]_vars
    /\ \A t \in Tasks :
          /\ WF_vars(SfLock(t))
          /\ WF_vars(\E ok \in BOOLEAN : SfWrite(t, ok))
          /\ WF_vars(\E ok \in BOOLEAN : SfWrite2(t, ok))

\* Two tasks receive; the peer sends a message in two fragments, and pings.
MaxTurnFrames == 3
TurnFrames ==
    {Masked(FALSE, OPCODE_TEXT, <<65>>), Masked(TRUE, 0, <<66>>),
     Masked(TRUE, OPCODE_PING, <<104, 105>>)}

NextTurn ==
    \/ \E f \in TurnFrames : PeerSend(f, MaxTurnFrames)
    \/ \E t \in Tasks : Receive(t)
    \/ \E t \in Tasks : RdHeader(t)
    \/ \E t \in Tasks : RdMask(t)
    \/ \E t \in Tasks : RdPayload(t)
    \/ \E t \in Tasks : SfLock(t)
    \/ \E t \in Tasks : \E ok \in BOOLEAN : SfWrite(t, ok)
    \/ \E t \in Tasks : \E ok \in BOOLEAN : SfWrite2(t, ok)

SpecTurn == Init /\ [][NextTurn]_vars

\* A header is encoded and parsed again.
NextHeader == EncodeHeader \/ ParseHeader

SpecHeader == InitHeader /\ [][NextHeader]_vars

\* The handler serves one request.
NextHandler ==
    \/ RunApplication
    \/ \E code \in {None, 1000} : AppCloses(code)
    \/ \E raised \in BOOLEAN : AppEnds(raised)

SpecHandler == InitHandler /\ [][NextHandler]_vars

\* ----------------------------------------------------------------- claims
LastOf(q) == q[Len(q)]
IsReceive(r) == r.op = "receive" /\ r.kind \in {"return", "raise"}
\* The bytes of the frame the server sends for a close with this code and reason.
CloseFrameBytes(code, reason) ==
    <<128 + OPCODE_CLOSE, 2 + Len(encode_bytes(reason))>>
        \o PackBE(code, 2) \o encode_bytes(reason)
\* A call close(code, message) with a code that is not falsy, made on an open
\* connection, has returned.
ClosedWithCode(r) ==
    r.op = "close" /\ r.kind = "return" /\ r.openAtCall /\ r.opcode \notin {None, 0}

\* C1: after close(code, message) with a non-falsy code on an open connection,
\* exactly one close frame (opcode 8, payload the 2-byte big-endian code and the
\* message bytes) is on the wire, written before the socket was shut down.
C1_CloseFrameOnWire ==
    \A t \in Tasks :
        ClosedWithCode(ret[t]) =>
            /\ Len(wire) >= ret[t].wire0 + 2
            /\ wire[ret[t].wire0 + 1] = Chunk(CloseFrameBytes(ret[t].opcode, ret[t].msg))
            /\ wire[ret[t].wire0 + 2] = Shutdown
            /\ Cardinality({i \in 1..Len(wire) : wire[i] = Shutdown}) = 1

\* The close frame that ended a receive() call, as _read_frame returned it.
EndedOnClose(r) ==
    IsReceive(r) /\ r.frames # <<>> /\ LastOf(r.frames).opcode = OPCODE_CLOSE
CloseCodeOf(f) == IF Len(f.payload) >= 2 THEN UnpackBE(Take(f.payload, 2)) ELSE None
GoodClose(f) ==
    \/ f.payload = <<>>
    \/ Len(f.payload) >= 2 /\ CloseCodeOf(f) >= 1000 /\ CloseCodeOf(f) < 5000
BadCodeClose(f) ==
    Len(f.payload) >= 2 /\ (CloseCodeOf(f) < 1000 \/ CloseCodeOf(f) >= 5000)

\* C2: a close frame with an empty payload or with a code in [1000, 5000) makes
\* receive() return None without raising; close_code and close_message are the
\* peer's code and reason, and the connection was closed by this call with code
\* 1000.
C2_GoodCloseFrame ==
    \A t \in Tasks :
        (EndedOnClose(ret[t]) /\ GoodClose(LastOf(ret[t].frames))) =>
            LET f == LastOf(ret[t].frames) IN
            /\ ret[t].kind = "return" /\ ret[t].val = PyNone
            /\ close_code = CloseCodeOf(f)
            /\ close_message = (IF f.payload = <<>> THEN NoneBytes
                                ELSE Drop(f.payload, 2))
            /\ ~socket /\ ~fd
            /\ closedWith = 1000 /\ closedBy = t

\* The peer's last frame is a masked close frame with a good payload, and the
\* receive() call that read it has ended.
C2_Witness ==
    /\ EndedOnClose(ret["t1"])
    /\ sent # <<>> /\ LastOf(sent).masked /\ LastOf(sent).opcode = OPCODE_CLOSE
    /\ LastOf(sent).payload = CloseBody(1000, <<98, 121>>)
    /\ LastOf(ret["t1"].frames).payload = LastOf(sent).payload

\* C3: a close frame whose code is outside [1000, 5000) makes receive() raise
\* ProtocolError, with no message, and the connection is closed with code 1002.
C3_BadCloseCode ==
    \A t \in Tasks :
        (EndedOnClose(ret[t]) /\ BadCodeClose(LastOf(ret[t].frames))) =>
            /\ ret[t].kind = "raise" /\ ret[t].err = "ProtocolError"
            /\ ret[t].val = PyNone
            /\ ~socket /\ closedWith = 1002

\* The header bytes h have the mask flag clear and a nonzero length field.
UnmaskedNonzero(h) ==
    Len(h) = 2 /\ BitAnd(h[2], 128) = 0 /\ BitAnd(h[2], 127) # 0
\* The header bytes h are those of an unfragmented control frame, no reserved
\* bit set, with length field 126 or 127.
LongControl(h) ==
    /\ BitAnd(h[1], HEADER_RSV_MASK) = 0 /\ BitAnd(h[1], 128) = 128
    /\ BitAnd(h[1], 15) > 7 /\ BitAnd(h[2], 127) > 125

\* No task goes on with a frame whose header is unmasked with a nonzero length,
\* and the receive() that read the header raised and closed the connection.
UnmaskedRejected(errs) ==
    \A t \in Tasks :
        /\ task[t].pc # "idle" => ~UnmaskedNonzero(task[t].hdr)
        /\ (IsReceive(ret[t]) /\ UnmaskedNonzero(ret[t].hdr)) =>
              /\ ret[t].kind = "raise" /\ ret[t].val = PyNone
              /\ ret[t].err \in errs
              /\ ~socket /\ ~fd

\* C6 as stated: a frame with the mask flag clear and a nonzero length field is
\* never delivered; receive() raises the generic WebSocketError and the
\* connection is closed, whatever the opcode and the form of the length.
C6_UnmaskedGeneric == UnmaskedRejected({"WebSocketError"})

\* C6, amended: the error is FrameTooLargeException exactly when the frame is an
\* unfragmented control frame with length field 126 or 127, and the generic
\* WebSocketError otherwise.
C6_UnmaskedRejected ==
    /\ UnmaskedRejected({"WebSocketError", "FrameTooLargeException"})
    /\ \A t \in Tasks :
          (IsReceive(ret[t]) /\ UnmaskedNonzero(ret[t].hdr)) =>
              (ret[t].err = "FrameTooLargeException" <=> LongControl(ret[t].hdr))

\* An unmasked text frame with a 16-bit length has been rejected.
C6_Witness ==
    /\ IsReceive(ret["t1"]) /\ ret["t1"].hdr = <<129, 126>>
    /\ sent # <<>> /\ LastOf(sent) = Unmasked(TRUE, OPCODE_TEXT, "b16", <<65>>)

\* C8: when receive() or send() raises, the connection is closed; a receive()
\* that closed it did so with 1002 for a ProtocolError, with 1007 for a UTF-8
\* decoding failure and abruptly for every other error.
C8_ErrorCloses ==
    \A t \in Tasks :
        (ret[t].kind = "raise" /\ ret[t].op \in {"receive", "send"}) =>
            /\ ~socket
            /\ (ret[t].op = "receive" /\ ret[t].openAtCall /\ closedBy = t) =>
                  closedWith = (IF ret[t].err = "ProtocolError" THEN 1002
                                ELSE IF ret[t].err = "UnicodeDecodeError" THEN 1007
                                ELSE None)

IsData(f) == f.opcode \in {0, OPCODE_TEXT, OPCODE_BINARY}
IsPing(f) == f.opcode = OPCODE_PING
DataOf(F) == SelectSeq(F, IsData)
Proj(f) == [fin |-> f.fin, opcode |-> f.opcode, payload |-> f.payload]
RECURSIVE ConcatPayloads(_)
ConcatPayloads(F) ==
    IF F = <<>> THEN <<>> ELSE F[1].payload \o ConcatPayloads(Tail(F))
\* The bytes of the value receive() returned.
ValBytes(v) == IF v.t = "unicode" THEN Utf8Encode(v.v) ELSE v.v
IsPrefix(a, b) == Len(a) <= Len(b) /\ SubSeq(b, 1, Len(a)) = a
\* The bytes put on the wire after its first n entries.
RECURSIVE WireBytes(_)
WireBytes(n) == IF n >= Len(wire) THEN <<>> ELSE wire[n + 1].b \o WireBytes(n + 1)
\* The pong frames that answer the pings among the frames F, in order.
RECURSIVE PongBytes(_)
PongBytes(F) ==
    IF F = <<>> THEN <<>>
    ELSE (IF IsPing(F[1])
          THEN <<128 + OPCODE_PONG, Len(F[1].payload)>> \o F[1].payload
          ELSE <<>>) \o PongBytes(Tail(F))
InFrameRead(t) ==
    task[t].pc \in {"rd_header", "rd_len2", "rd_len8", "rd_mask", "rd_payload"}

\* While a receive() reads its next frame, every ping it has read so far has
\* been answered with a pong of the same payload, and nothing else was written;
\* the message a receive() returns is made of the data frames alone.
PingsAnswered ==
    \A t \in Tasks :
        /\ (task[t].call = "receive" /\ InFrameRead(t)) =>
              WireBytes(task[t].wire0) = PongBytes(task[t].frames)
        /\ (IsReceive(ret[t]) /\ ret[t].kind = "return") =>
              IsPrefix(PongBytes(ret[t].frames), WireBytes(ret[t].wire0))
        /\ (IsReceive(ret[t]) /\ ret[t].kind = "return" /\ ret[t].val # PyNone) =>
              ValBytes(ret[t].val) = ConcatPayloads(DataOf(ret[t].frames))
\* The last frame a receive() read before it ended was a ping.
EndedOnPing(r) == IsReceive(r) /\ r.frames # <<>> /\ IsPing(LastOf(r.frames))

\* C4 as stated: every ping is answered with a pong of the same payload before
\* the next frame is read, its payload is not part of the message, and the read
\* of the message goes on after it: no receive() ends on a ping.
C4_PingAlwaysAnswered ==
    /\ PingsAnswered
    /\ \A t \in Tasks : ~EndedOnPing(ret[t])

\* C4, amended: a receive() ends on a ping only when the write of the pong
\* failed; the connection was then closed abruptly and the write error raised.
C4_PingAnswered ==
    /\ PingsAnswered
    /\ \A t \in Tasks :
          EndedOnPing(ret[t]) =>
              /\ ret[t].kind = "raise" /\ ret[t].err = "socket.error"
              /\ ~socket /\ closedWith = None /\ closedBy = t

\* A ping arrived between two fragments and the message was delivered.
C4_Witness ==
    /\ IsReceive(ret["t1"]) /\ ret["t1"].kind = "return"
    /\ Len(ret["t1"].frames) = 3 /\ IsPing(ret["t1"].frames[2])
    /\ ret["t1"].frames[2].payload = <<104, 105>>
    /\ ret["t1"].val = [t |-> "unicode", v |-> <<233>>]

\* The frames of the peer a receive() call consumed, when the stream is aligned
\* on frames (every frame sent so far was masked).
Aligned(r) ==
    /\ r.first + Len(r.frames) <= Len(sent)
    /\ \A i \in 1..(r.first + Len(r.frames)) : sent[i].masked
CallFrames(r) == SubSeq(sent, r.first + 1, r.first + Len(r.frames))
\* D is a message in fragments: a text or binary frame with fin = 0, continuation
\* frames with fin = 0, a last continuation frame with fin = 1.
Fragmented(D) ==
    /\ Len(D) >= 2
    /\ D[1].opcode \in {OPCODE_TEXT, OPCODE_BINARY} /\ ~D[1].fin
    /\ \A i \in 2..Len(D) : D[i].opcode = 0 /\ (D[i].fin <=> i = Len(D))
\* The receive() call r consumed a fragmented message of the peer.
ReadFragmented(r) ==
    IsReceive(r) /\ Aligned(r) /\ Fragmented(DataOf(CallFrames(r)))
\* The receive() call r returned the message D, typed by its first frame.
Delivered(r, D) ==
    /\ r.kind = "return"
    /\ r.val.t = (IF D[1].opcode = OPCODE_TEXT THEN "unicode" ELSE "bytearray")
    /\ ValBytes(r.val) = ConcatPayloads(D)
    /\ r.frames = [i \in 1..Len(r.frames) |-> Proj(CallFrames(r)[i])]

\* C5 as stated: a message sent in fragments is returned by one receive() call,
\* its bytes the concatenation of the payloads, typed by the first frame.
C5_FragmentsDelivered ==
    \A t \in Tasks :
        ReadFragmented(ret[t]) => Delivered(ret[t], DataOf(CallFrames(ret[t])))

\* C5, amended: a text message is returned when the concatenation is valid UTF-8;
\* when it is not, receive() closes with 1007 and raises the decoding error.
C5_FragmentsReassembled ==
    \A t \in Tasks :
        ReadFragmented(ret[t]) =>
            LET D == DataOf(CallFrames(ret[t])) IN
            IF D[1].opcode = OPCODE_TEXT /\ Utf8Decode(ConcatPayloads(D)) = <<-1>>
            THEN /\ ret[t].kind = "raise" /\ ret[t].err = "UnicodeDecodeError"
                 /\ ~socket /\ closedWith = 1007
            ELSE Delivered(ret[t], D)

\* A text message sent in three fragments, the UTF-8 of U+00E9 split between
\* two of them, was delivered.
C5_Witness ==
    /\ ReadFragmented(ret["t1"]) /\ ret["t1"].kind = "return"
    /\ Len(DataOf(CallFrames(ret["t1"]))) = 3
    /\ CallFrames(ret["t1"])[1] = Masked(FALSE, OPCODE_TEXT, <<195>>)
    /\ ret["t1"].val = [t |-> "unicode", v |-> <<233, 65, 66, 67, 68, 69>>]

\* Task t ends an API call in this step.
EndsCall(t) ==
    (task[t].pc # "idle" \/ calls'[t] # calls[t]) /\ task'[t].pc = "idle"
\* Task t calls receive() in this step.
StartsReceive(t) ==
    /\ calls'[t] # calls[t]
    /\ \/ task'[t].call = "receive"
       \/ task'[t].pc = "idle" /\ ret'[t].op = "receive"

\* C7: at most one task is in a frame read, and the guard is set exactly while
\* one is; a frame read attempted while another task is in one raises
\* RuntimeError, consumes no byte and leaves the guard to the task that reads.
C7_SingleReader ==
    /\ [](/\ Cardinality({t \in Tasks : InFrameRead(t)}) <= 1
          /\ reading <=> \E t \in Tasks : InFrameRead(t))
    /\ [][\A t \in Tasks :
            /\ (EndsCall(t) /\ ret'[t].err = "RuntimeError") =>
                  /\ stream' = stream /\ nread' = nread
                  /\ reading /\ reading'
                  /\ \E u \in Tasks \ {t} : InFrameRead(u) /\ task'[u] = task[u]
            /\ (StartsReceive(t) /\ \E u \in Tasks \ {t} : InFrameRead(u)) =>
                  /\ EndsCall(t) /\ ret'[t].kind = "raise"
                  /\ ret'[t].err = "RuntimeError"
         ]_vars

\* A receive() was refused while the other task was in the middle of a frame,
\* bytes of it still on the stream.
C7_Witness ==
    /\ ret["t2"].op = "receive" /\ ret["t2"].err = "RuntimeError"
    /\ task["t1"].pc = "rd_mask" /\ stream # <<>> /\ reading


\* ------------------------------------------------------------ C9 and C10
Count(seq, x) == Cardinality({i \in 1..Len(seq) : seq[i] = x})
IndexOf(seq, x) == CHOOSE i \in 1..Len(seq) : seq[i] = x

\* An upgrade request (Upgrade: websocket, Connection: upgrade) whose method is
\* not GET or whose version is not HTTP/1.1.
BadRequestLine ==
    /\ Lower(handler.req.upgrade) = "websocket"
    /\ Lower(handler.req.connection) = "upgrade"
    /\ (handler.req.method # "GET" \/ handler.req.version # "HTTP/1.1")

\* C9: for an upgrade request whose method is not GET or whose version is not
\* HTTP/1.1, the handler records 400 Bad Request, calls no protocol engine,
\* installs no connection object, and ends by process_result without calling
\* the application, through run_websocket or through the host.
C9_BadRequestRefused ==
    (handler.pc # "start" /\ BadRequestLine) =>
        /\ handler.pc = "done"
        /\ handler.status = "400 Bad Request"
        /\ handler.log = <<"start_response", "process_result">>
        /\ handler.envWs = "None" /\ handler.websocket = "None"
        /\ socket /\ fd

\* A GET request of HTTP/1.0 with Sec-WebSocket-Version that the engine would
\* have accepted has been refused.
C9_Witness ==
    /\ handler.pc = "done" /\ BadRequestLine
    /\ handler.req.method = "GET" /\ handler.req.version = "HTTP/1.0"
    /\ handler.req.secver /\ handler.req.engine = "ok"
    /\ handler.log = <<"start_response", "process_result">>

\* The upgrade succeeded and prevent_wsgi_call is not set.
UpgradedToApp == handler.envWs # "None" /\ ~handler.req.prevent

\* C10: after a successful upgrade without prevent_wsgi_call the application
\* is called exactly once, close() of the connection object is called after the
\* application has ended and not before, whether it returned or raised, and the
\* connection is closed once run_websocket has finished.
C10_AppOnceThenClosed ==
    (handler.pc # "start" /\ UpgradedToApp) =>
        /\ Count(handler.log, "application") = 1
        /\ handler.pc = "app" => Count(handler.log, "websocket.close") = 0
        /\ handler.pc = "done" =>
              /\ Count(handler.log, "websocket.close") = 1
              /\ IndexOf(handler.log, "application")
                    < IndexOf(handler.log, "websocket.close")
              /\ ~socket /\ ~fd

\* The application raised on a Hybi connection it had left open, and the close
\* of run_websocket closed it.
C10_Witness ==
    /\ handler.pc = "done" /\ UpgradedToApp /\ handler.raised
    /\ handler.websocket = "hybi" /\ closedBy = "handler" /\ ~socket /\ ~fd

\* ------------------------------------------------------------------- C11
\* An upgrade request with GET and HTTP/1.1 that names neither
\* Sec-WebSocket-Version nor Origin: upgrade_websocket fails, no status assigned.
NoHandshakeHeaders ==
    /\ Lower(handler.req.upgrade) = "websocket"
    /\ Lower(handler.req.connection) = "upgrade"
    /\ handler.req.method = "GET" /\ handler.req.version = "HTTP/1.1"
    /\ ~handler.req.secver /\ ~handler.req.origin

\* C11: an upgrade request for which upgrade_websocket fails without assigning
\* a status is handed to the host's run_application, and run_application ends
\* by process_result only when the handshake attempt assigned a status.
C11_NoStatusDelegated ==
    handler.pc # "start" =>
        /\ NoHandshakeHeaders => handler.log = <<"super.run_application">>
        /\ Count(handler.log, "process_result") > 0 => handler.status # "None"

\* ------------------------------------------------------------------- C12
\* Task t makes a close() call in this step.
CallsClose(t) ==
    /\ task[t].pc = "idle" /\ calls'[t] # calls[t]
    /\ task'[t].pc = "idle" /\ ret'[t].op = "close"

\* C12: a close() on a connection that is already closed returns without
\* raising and changes nothing of the connection (nothing written, no second
\* shutdown, socket absent, close_code and close_message kept), whichever task
\* closed it first; the socket is shut down at most once.
C12_CloseIdempotent ==
    /\ [](Count(wire, Shutdown) <= 1)
    /\ [][\A t \in Tasks :
            (CallsClose(t) /\ ~socket) =>
                /\ ret'[t].kind = "return"
                /\ Conn' = Conn
                /\ \A u \in Tasks \ {t} : task'[u] = task[u]
         ]_vars

\* Task t2 has called close(1000) on a connection that task t1's receive() had
\* closed on the peer's close frame, whose code and reason are still recorded.
C12_Witness ==
    /\ ret["t2"].op = "close" /\ ~ret["t2"].openAtCall /\ ret["t2"].opcode = 1000
    /\ ret["t1"].op = "receive" /\ EndedOnClose(ret["t1"])
    /\ closedBy = "t1" /\ ~socket /\ Count(wire, Shutdown) = 1
    /\ close_code = 1001 /\ close_message = <<98>>

\* ------------------------------------------------------------------- C13
\* Task t calls send() in this step.
CallsSend(t) ==
    /\ task[t].pc = "idle" /\ calls'[t] # calls[t]
    /\ \/ task'[t].call = "send"
       \/ task'[t].pc = "idle" /\ ret'[t].op = "send"

\* C13: a send() on a closed connection raises WebSocketError at once and
\* changes nothing of the connection: nothing is written, the write lock is
\* neither taken nor waited for, and the other task is not disturbed.
C13_SendAfterClose ==
    [][\A t \in Tasks :
          (CallsSend(t) /\ ~socket) =>
              /\ task'[t].pc = "idle"
              /\ ret'[t].kind = "raise" /\ ret'[t].err = "WebSocketError"
              /\ Conn' = Conn
              /\ \A u \in Tasks \ {t} : task'[u] = task[u]
     ]_vars

\* Task t2 closed the connection while task t1 held the write lock in the
\* middle of a frame, and t2's next send() was refused.
C13_Witness ==
    /\ ret["t2"].op = "send" /\ ~ret["t2"].openAtCall
    /\ ret["t2"].kind = "raise" /\ ret["t2"].err = "WebSocketError"
    /\ closedBy = "t2" /\ writelock = "t1" /\ task["t1"].pc = "sf_write2"

\* ------------------------------------------------------------------- C14
\* C14: when the read of a frame header returns no bytes, receive() returns
\* None if no data frame of a message has been read in this call, and raises
\* WebSocketError if one has.
C14_CleanEndOfStream ==
    \A t \in Tasks :
        (IsReceive(ret[t]) /\ ret[t].eof) =>
            IF DataOf(ret[t].frames) = <<>>
            THEN ret[t].kind = "return" /\ ret[t].val = PyNone
            ELSE ret[t].kind = "raise" /\ ret[t].err = "WebSocketError"

\* ------------------------------------------------------------------- C15
\* The second byte of the header of a message of n bytes: the length itself, or
\* the mark of the 16-bit or of the 64-bit form.
BaseLength(n) == IF n < 126 THEN n ELSE IF n < 65536 THEN 126 ELSE 127

\* C15 as stated: parse_header, given the header encode_header made for a text
\* or binary message, yields fin, the same opcode and the length of the
\* message, for the long forms too.
C15_RoundTrip ==
    codec.step = "parsed" =>
        /\ codec.parsed.err = "" /\ codec.parsed.fin
        /\ codec.parsed.opcode = codec.opcode
        /\ codec.parsed.length = codec.length

\* C15 amended: parse_header, given the first two bytes of the header, yields
\* fin, the same opcode, no mask and the base length: the length of the message
\* under 126, else 126 or 127, and then the 2 or 8 bytes that follow are the
\* length, big-endian.  _read_header refuses the header as unmasked unless the
\* message is empty.
C15_RoundTripBase ==
    codec.step = "parsed" =>
        /\ codec.parsed.err = "" /\ codec.parsed.fin /\ ~codec.parsed.has_mask
        /\ codec.parsed.opcode = codec.opcode
        /\ codec.parsed.length = BaseLength(codec.length)
        /\ Len(codec.header) = (IF codec.length < 126 THEN 2
                                ELSE IF codec.length < 65536 THEN 4 ELSE 10)
        /\ codec.length >= 126 => UnpackBE(Drop(codec.header, 2)) = codec.length
        /\ codec.read.err = (IF codec.length = 0 THEN "" ELSE "WebSocketError")

\* The header of a binary message of 65536 bytes has been encoded and parsed.
C15_Witness ==
    /\ codec.step = "parsed" /\ codec.opcode = OPCODE_BINARY /\ codec.length = 65536
    /\ codec.header = <<130, 127, 0, 0, 0, 0, 0, 1, 0, 0>>
    /\ codec.parsed.length = 127

\* ------------------------------------------------------------------- C16
\* Task t is inside the locked section of send_frame.
InWrite(t) == task[t].pc \in {"sf_write", "sf_write2"}
IsBytes(c) == c.k = "bytes"
\* What self._write has put on the wire, write by write.
Written == SelectSeq(wire, IsBytes)
\* The frames the tasks send, and the pong.
WholeFrames ==
    {frame_bytes(MessageOf(t), OPCODE_BINARY) : t \in Tasks}
        \cup {frame_bytes(PyStr(<<104, 105>>), OPCODE_PONG)}

\* C16: the write lock is held exactly by the one task that is inside the
\* locked section of send_frame, so it is free after every exit of it; the
\* two halves of each frame are next to each other on the wire, the second
\* missing only while its writer is about to write it or when the socket has
\* been shut down; and a task that waits for the lock gets it.
C16_WritesSerialized ==
    /\ [](\A t \in Tasks : InWrite(t) <=> writelock = t)
    /\ [](\A i \in 1..Len(Written) :
            (i % 2 = 1) =>
                IF i < Len(Written) THEN Written[i].b \o Written[i + 1].b \in WholeFrames
                ELSE \/ ~fd
                     \/ \E t \in Tasks :
                           /\ task[t].pc = "sf_write2"
                           /\ Written[i].b \o task[t].sf_data \in WholeFrames)
    /\ \A t \in Tasks : (task[t].pc = "sf_lock") ~> (task[t].pc # "sf_lock")

\* Task t1's receive() has written a pong and task t2's send() its frame: both
\* are whole on the wire, one after the other, and the lock is free again.
C16_Witness ==
    /\ ret["t2"].op = "send" /\ ret["t2"].kind = "return"
    /\ Len(Written) = 4 /\ writelock = Free
    /\ Written[1].b \o Written[2].b = frame_bytes(PyStr(<<104, 105>>), OPCODE_PONG)
    /\ Written[3].b \o Written[4].b = frame_bytes(MessageOf("t2"), OPCODE_BINARY)
    /\ task["t1"].call = "receive" /\ InFrameRead("t1")

\* ------------------------------------------------------------------- C17
\* Task t's receive() has read a data frame of a message and has not returned.
MessageInProgress(t) ==
    task[t].call = "receive" /\ DataOf(task[t].frames) # <<>>

\* C17: while a receive() has a message in progress, no other task reads a
\* frame from the connection.
C17_MessagesNotInterleaved ==
    [][\A t \in Tasks : \A u \in Tasks \ {t} :
          MessageInProgress(t) => ~(nread' # nread /\ task'[u] # task[u])
     ]_vars

\* ------------------------------------------------------------------- C18
\* The header bytes h have a reserved bit set, or are those of a control frame
\* with fin clear.
BadHeader(h) ==
    /\ Len(h) = 2
    /\ \/ BitAnd(h[1], HEADER_RSV_MASK) # 0
       \/ BitAnd(h[1], 15) > 7 /\ BitAnd(h[1], 128) = 0
\* The last frame the call read is a text or binary frame that came while a
\* message begun in this call was in progress.
SecondLeadingFrame(r) ==
    /\ Len(DataOf(r.frames)) >= 2
    /\ LastOf(r.frames).opcode \in {OPCODE_TEXT, OPCODE_BINARY}

\* C18: a frame with a reserved bit set, a control frame with fin clear, or a
\* text or binary frame inside a fragmented message makes receive() raise
\* ProtocolError and close the connection with code 1002.
C18_FramingViolation ==
    \A t \in Tasks :
        (IsReceive(ret[t]) /\ ret[t].openAtCall
            /\ (BadHeader(ret[t].hdr) \/ SecondLeadingFrame(ret[t]))) =>
            /\ ret[t].kind = "raise" /\ ret[t].err = "ProtocolError"
            /\ ~socket /\ closedWith = 1002

\* ------------------------------------------------------------------- C19
\* The bytes of the first n frames the peer sent: for each, 2 header bytes, the
\* extended length, the masking key if the mask flag is set, and the payload.
RECURSIVE SizeOfFrames(_)
SizeOfFrames(n) ==
    IF n = 0 THEN 0 ELSE SizeOfFrames(n - 1) + Len(EncodeFrame(sent[n]))
\* The bytes read from the stream so far.
BytesConsumed == SizeOfFrames(Len(sent)) - Len(stream)

\* C19: when a frame read is about to read a header, the bytes consumed are
\* those of the frames accepted so far, no more; and the header a frame read
\* goes on with is the header of the next frame the peer sent.
C19_StreamAligned ==
    \A t \in Tasks :
        /\ (task[t].pc = "rd_header" /\ nread <= Len(sent)) =>
              BytesConsumed = SizeOfFrames(nread)
        /\ (task[t].pc \in {"rd_len2", "rd_len8", "rd_mask", "rd_payload"}) =>
              /\ nread < Len(sent)
              /\ task[t].hdr = Take(EncodeFrame(sent[nread + 1]), 2)

\* ------------------------------------------------------------------- C20
\* C20: a receive() refused with the reentrancy error leaves the connection as
\* it was (socket there, reader attached, nothing written or shut down) and the
\* task that is reading where it was.
C20_RefusedReceiveHarmless ==
    [][\A t \in Tasks :
          (EndsCall(t) /\ ret'[t].op = "receive" /\ ret'[t].err = "RuntimeError") =>
              /\ Conn' = Conn
              /\ socket' /\ readfn' /\ fd'
              /\ \A u \in Tasks \ {t} : task'[u] = task[u]
     ]_vars
====
